---------------------------- MODULE Spec2Model ----------------------------
(*
  A model of livesplit-core's Run aggregate (src/src/run/run.rs): the Attempt
  History, the custom comparisons, the segments with their Segment Histories,
  and the reconciliation algorithms fix_splits is made of; and of the
  auto splitter's SettingsMap
  (src/crates/livesplit-auto-splitting/src/settings.rs).

  Values.  A TimeSpan is an integer number of milliseconds.  An Option<T> is
  the empty sequence (None) or a one-element sequence (Some(v)).  A Time is a
  record with one optional TimeSpan per timing method.  A Segment History is
  a sequence of [index, time] entries kept sorted by index, as the ledger
  keeps it.  A Run is a record of the fields the modelled operations read or
  write.
*)
EXTENDS Integers, Sequences, FiniteSets

VARIABLES
    run,    \* the Run
    prev,   \* the Run the last operation was applied to, when that was fix_splits
            \* or clear_times
    mid,    \* the Runs that fix_splits went through between its passes
    op,     \* the last operation
    maps,   \* the SettingsMap handles: per slot, the Arc the handle points to
    arcs,   \* the Arc allocations: per address, the HashMap stored there
    latest, \* per handle, the value each key was last given through it or
            \* through the handles it was cloned from
    clones, \* the pairs of a clone and its source, and whether insert was
            \* called on either since
    sop,    \* the last SettingsMap operation
    call    \* a call of a read-only method of Run: its receiver and
            \* arguments, and what it has returned so far

runVars == <<run, prev, mid, op>>

settingsVars == <<maps, arcs, latest, clones, sop>>

vars == <<run, prev, mid, op, maps, arcs, latest, clones, sop, call>>

-----------------------------------------------------------------------------
(* Option, TimingMethod, Time *)

None == <<>>

Some(v) == <<v>>

IsSome(o) == o # <<>>

Unwrap(o) == o[1]

RealTime == "real_time"

GameTime == "game_time"

\* TimingMethod::all(): the order fix_splits and the imports walk the methods in
TimingMethodAll == <<RealTime, GameTime>>

\* Time::default() / Time::new(): both methods absent
TimeDefault == [real_time |-> None, game_time |-> None]

\* Time::zero()
TimeZero == [real_time |-> Some(0), game_time |-> Some(0)]

\* personal_best::NAME
PersonalBestName == "Personal Best"

Max2(a, b) == IF a >= b THEN a ELSE b

Min2(a, b) == IF a <= b THEN a ELSE b

SetMax(S) == CHOOSE x \in S : \A y \in S : y <= x

SetMin(S) == CHOOSE x \in S : \A y \in S : x <= y

Range(s) == {s[i] : i \in DOMAIN s}

-----------------------------------------------------------------------------
(* The Segment History ledger: a sequence of entries sorted by index *)

Entry(i, t) == [index |-> i, time |-> t]

HistoryIndices(h) == {h[k].index : k \in DOMAIN h}

\* SegmentHistory::get
HistoryGet(h, i) ==
    IF i \in HistoryIndices(h)
    THEN Some((CHOOSE e \in Range(h) : e.index = i).time)
    ELSE None

\* SegmentHistory::remove
HistoryRemove(h, i) == SelectSeq(h, LAMBDA e : e.index # i)

\* SegmentHistory::insert: the entry goes to its place in index order and
\* replaces the entry of that index, if any
HistoryInsert(h, i, t) ==
    SelectSeq(h, LAMBDA e : e.index < i) \o <<Entry(i, t)>>
        \o SelectSeq(h, LAMBDA e : e.index > i)

\* SegmentHistory::min_index: the smallest index, and 1 when there is none
\* below 1, so that "one below the minimum" is always a synthetic index
HistoryMinIndex(h) == SetMin(HistoryIndices(h) \cup {1})

\* SegmentHistory::iter_actual_runs: the entries of real attempts
IterActualRuns(h) == SelectSeq(h, LAMBDA e : e.index >= 1)


-----------------------------------------------------------------------------
(* SettingsMap: handles that share an Arc<HashMap> until one is written to *)

MaxMaps == 2

\* The places a handle can live in, and the addresses an Arc can have
Slots == 1..MaxMaps

Addrs == 1..MaxMaps

SettingKeys == {"a", "b"}

\* SettingValue::Bool(..)
SettingValues == BOOLEAN

\* HashMap::new(): no key has a value
HashMapNew == [k \in SettingKeys |-> None]

\* HashMap::insert(key, value)
HashMapInsert(m, key, value) == [m EXCEPT ![key] = Some(value)]

\* HashMap::get(key)
HashMapGet(m, key) == m[key]

\* HashMap::iter(), as the set of pairs it yields (in an unspecified order)
HashMapIter(m) == {<<k, Unwrap(m[k])>> : k \in {x \in SettingKeys : IsSome(m[x])}}

IsHandle(M, s) == IsSome(M[s])

\* self.values, dereferenced
ValuesOf(M, A, s) == Unwrap(A[Unwrap(M[s])])

\* Arc::strong_count
StrongCount(M, addr) == Cardinality({s \in Slots : M[s] = Some(addr)})

FreeAddrs(A) == {addr \in Addrs : ~IsSome(A[addr])}

\* The address of the next Arc: the allocator hands out the lowest free one
NextAddr(A) == SetMin(FreeAddrs(A))

\* SettingsMap::new(): a handle in slot s to a new Arc at addr
SettingsMapNew(M, A, s, addr) ==
    [maps |-> [M EXCEPT ![s] = Some(addr)],
     arcs |-> [A EXCEPT ![addr] = Some(HashMapNew)]]

\* SettingsMap::clone(): a handle in slot dst to the Arc of the one in src
SettingsMapClone(M, A, src, dst) ==
    [maps |-> [M EXCEPT ![dst] = M[src]], arcs |-> A]

\* Dropping the handle in slot s: the Arc goes with its last handle
SettingsMapDrop(M, A, s) ==
    [maps |-> [M EXCEPT ![s] = None],
     arcs |-> IF StrongCount(M, Unwrap(M[s])) = 1
              THEN [A EXCEPT ![Unwrap(M[s])] = None]
              ELSE A]

\* An insert that writes through the Arc whether it is shared or not
insert_Shared(M, A, s, key, value, addr) ==
    [maps |-> M,
     arcs |-> [A EXCEPT ![Unwrap(M[s])] = Some(HashMapInsert(Unwrap(@), key, value))]]

\* An insert that leaves the value of a key that is there
insert_KeepOld(M, A, s, key, value, addr) ==
    LET old == Unwrap(M[s])
        write(m) == IF IsSome(m[key]) THEN m ELSE HashMapInsert(m, key, value)
    IN IF StrongCount(M, old) = 1
       THEN [maps |-> M, arcs |-> [A EXCEPT ![old] = Some(write(Unwrap(@)))]]
       ELSE [maps |-> [M EXCEPT ![s] = Some(addr)],
             arcs |-> [A EXCEPT ![addr] = Some(write(Unwrap(A[old])))]]

\* SettingsMap::insert: Arc::make_mut writes in place when the handle is the
\* only one to the Arc, and otherwise moves the handle to a clone of the
\* HashMap in a new Arc at addr
insert(M, A, s, key, value, addr) ==
    LET old == Unwrap(M[s])
    IN IF StrongCount(M, old) = 1
       THEN [maps |-> M,
             arcs |-> [A EXCEPT ![old] = Some(HashMapInsert(Unwrap(@), key, value))]]
       ELSE [maps |-> [M EXCEPT ![s] = Some(addr)],
             arcs |-> [A EXCEPT ![addr] = Some(HashMapInsert(Unwrap(A[old]), key, value))]]

\* SettingsMap::get
get(M, A, s, key) == HashMapGet(ValuesOf(M, A, s), key)

\* SettingsMap::iter
iter(M, A, s) == HashMapIter(ValuesOf(M, A, s))

\* An is_unchanged that compares the HashMaps
is_unchanged_ByValue(M, A, a, b) == ValuesOf(M, A, a) = ValuesOf(M, A, b)

\* SettingsMap::is_unchanged: Arc::ptr_eq
is_unchanged(M, A, a, b) == M[a] = M[b]

\* No call of a read-only method
NoCall == [fn |-> "none"]

\* No SettingsMap at all
SettingsIdle ==
    /\ maps = [s \in Slots |-> None]
    /\ arcs = [addr \in Addrs |-> None]
    /\ latest = [s \in Slots |-> None]
    /\ clones = {}
    /\ sop = [name |-> "none"]

-----------------------------------------------------------------------------
(* Run::fix_splits and the passes it is made of *)

SegIndices(R) == DOMAIN R.segments

\* Run::max_attempt_history_index
max_attempt_history_index(R) ==
    IF R.attempt_history = <<>>
    THEN None
    ELSE Some(SetMax({R.attempt_history[k].index : k \in DOMAIN R.attempt_history}))

\* self.segments.iter().map(..).min(): None for a Run without segments
MinOverSegments(R) ==
    IF SegIndices(R) = {}
    THEN None
    ELSE Some(SetMin({HistoryMinIndex(R.segments[i].segment_history) :
                         i \in SegIndices(R)}))

\* An unwrap_or(1) in the place of the expect
Expect_OrDefault(o) == [panic |-> FALSE, value |-> IF IsSome(o) THEN Unwrap(o) ELSE 1]

\* Option::expect: the value, or a panic
Expect(o) == IF IsSome(o) THEN [panic |-> FALSE, value |-> Unwrap(o)] ELSE [panic |-> TRUE]

\* Run::min_segment_history_index, as it ends: with a value or in a panic
MinSegmentHistoryIndexEnd(R) == Expect(MinOverSegments(R))

\* Run::min_segment_history_index, where it returns
min_segment_history_index(R) == MinSegmentHistoryIndexEnd(R).value

\* A first loop that leaves negative Best Segment Times in place
RemoveNegativeBest_Keep(seg, method) == seg

\* fix_comparison_times_and_history, first loop: "Remove negative Best
\* Segment Times"
RemoveNegativeBest(seg, method) ==
    IF IsSome(seg.best_segment_time[method])
         /\ Unwrap(seg.best_segment_time[method]) < 0
    THEN [seg EXCEPT !.best_segment_time[method] = None]
    ELSE seg

\* A prune that lets the actual runs through
fix_history_from_none_best_segments_KeepActual(seg, method) ==
    IF ~IsSome(seg.best_segment_time[method])
    THEN [seg EXCEPT !.segment_history =
              SelectSeq(@, LAMBDA e : e.index >= 1 \/ ~IsSome(e.time[method]))]
    ELSE seg

\* fix_history_from_none_best_segments: without a Best Segment Time for the
\* method, only the entries without a time for the method stay
fix_history_from_none_best_segments(seg, method) ==
    IF ~IsSome(seg.best_segment_time[method])
    THEN [seg EXCEPT !.segment_history =
              SelectSeq(@, LAMBDA e : ~IsSome(e.time[method]))]
    ELSE seg

\* A floor with the comparison turned round
fix_history_from_best_segment_times_Flipped(seg, method) ==
    IF IsSome(seg.best_segment_time[method])
    THEN LET best_segment == Unwrap(seg.best_segment_time[method])
         IN [seg EXCEPT !.segment_history =
               [k \in DOMAIN @ |->
                  IF IsSome(@[k].time[method])
                       /\ Unwrap(@[k].time[method]) > best_segment
                  THEN [@[k] EXCEPT !.time[method] = Some(best_segment)]
                  ELSE @[k]]]
    ELSE seg

fix_history_from_best_segment_times(seg, method) ==
    IF IsSome(seg.best_segment_time[method])
    THEN LET best_segment == Unwrap(seg.best_segment_time[method])
         IN [seg EXCEPT !.segment_history =
               [k \in DOMAIN @ |->
                  IF IsSome(@[k].time[method])
                       /\ Unwrap(@[k].time[method]) < best_segment
                  THEN [@[k] EXCEPT !.time[method] = Some(best_segment)]
                  ELSE @[k]]]
    ELSE seg

\* An inner loop that does not clamp
ClampedTime_Unclamped(time, previous_time) == time

\* The comparison time the inner loop of the third pass carries on with:
\* "Prevent comparison times from decreasing from one split to the next"
ClampedTime(time, previous_time) ==
    IF time < previous_time THEN previous_time ELSE time

\* A fix that only lowers a Best Segment Time that is there
FixBestSegment_OnlyLower(seg, method, current_segment) ==
    IF IsSome(seg.best_segment_time[method])
         /\ Unwrap(seg.best_segment_time[method]) > current_segment
    THEN [seg EXCEPT !.best_segment_time[method] = Some(current_segment)]
    ELSE seg

\* "Fix Best Segment time if the PB segment is faster"
FixBestSegment(seg, method, current_segment) ==
    IF ~IsSome(seg.best_segment_time[method])
         \/ Unwrap(seg.best_segment_time[method]) > current_segment
    THEN [seg EXCEPT !.best_segment_time[method] = Some(current_segment)]
    ELSE seg

\* A body that writes the time to the split time as well
FixSegmentComparison_SetsSplit(seg, comparison, method, previous_time) ==
    LET time == ClampedTime(Unwrap(seg.comparisons[comparison][method]),
                            previous_time)
        seg1 == [seg EXCEPT !.comparisons[comparison][method] = Some(time),
                            !.split_time[method] = Some(time)]
    IN IF comparison = PersonalBestName
       THEN FixBestSegment(seg1, method, time - previous_time)
       ELSE seg1

\* The body of the inner loop for one segment with a concrete comparison time
FixSegmentComparison(seg, comparison, method, previous_time) ==
    LET time == ClampedTime(Unwrap(seg.comparisons[comparison][method]),
                            previous_time)
        seg1 == [seg EXCEPT !.comparisons[comparison][method] = Some(time)]
    IN IF comparison = PersonalBestName
       THEN FixBestSegment(seg1, method, time - previous_time)
       ELSE seg1

\* The inner loop over the segments from position i on, for one comparison
RECURSIVE FixComparisonFrom(_, _, _, _, _)
FixComparisonFrom(segments, comparison, method, i, previous_time) ==
    IF i > Len(segments)
    THEN segments
    ELSE IF IsSome(segments[i].comparisons[comparison][method])
         THEN LET seg == FixSegmentComparison(segments[i], comparison, method,
                                              previous_time)
              IN FixComparisonFrom([segments EXCEPT ![i] = seg], comparison,
                                   method, i + 1,
                                   Unwrap(seg.comparisons[comparison][method]))
         ELSE FixComparisonFrom(segments, comparison, method, i + 1,
                                previous_time)

\* The outer loop over custom_comparisons from position k on
RECURSIVE FixComparisonsFrom(_, _, _, _)
FixComparisonsFrom(segments, custom_comparisons, method, k) ==
    IF k > Len(custom_comparisons)
    THEN segments
    ELSE FixComparisonsFrom(
             FixComparisonFrom(segments, custom_comparisons[k], method, 1, 0),
             custom_comparisons, method, k + 1)

\* The four passes with the history filter run before the negative cleanup
fix_comparison_times_and_history_FilterFirst(R, method) ==
    LET s1 == [i \in SegIndices(R) |->
                  fix_history_from_none_best_segments(R.segments[i], method)]
        s2 == [i \in SegIndices(R) |-> RemoveNegativeBest(s1[i], method)]
        s3 == FixComparisonsFrom(s2, R.custom_comparisons, method, 1)
        s4 == [i \in SegIndices(R) |->
                  fix_history_from_best_segment_times(s3[i], method)]
    IN [R EXCEPT !.segments = s4]

fix_comparison_times_and_history(R, method) ==
    LET s1 == [i \in SegIndices(R) |-> RemoveNegativeBest(R.segments[i], method)]
        s2 == [i \in SegIndices(R) |->
                  fix_history_from_none_best_segments(s1[i], method)]
        s3 == FixComparisonsFrom(s2, R.custom_comparisons, method, 1)
        s4 == [i \in SegIndices(R) |->
                  fix_history_from_best_segment_times(s3[i], method)]
    IN [R EXCEPT !.segments = s4]

\* Sets that start out empty
SeedSet_Empty(h, method) == {}

\* remove_duplicates: the sets as seeded from the actual runs of one history
SeedSet(h, method) ==
    {Unwrap(e.time[method]) : e \in {x \in Range(IterActualRuns(h)) : IsSome(x.time[method])}}

\* A closure that does not let the actual runs through
IsRetained_NoIndexCheck(e, rta_set, igt_set) ==
    LET is_none == ~IsSome(e.time.real_time) /\ ~IsSome(e.time.game_time)
        is_unique ==
            \/ IsSome(e.time.real_time)
                 /\ Unwrap(e.time.real_time) \notin rta_set
            \/ IsSome(e.time.game_time)
                 /\ Unwrap(e.time.game_time) \notin igt_set
    IN is_none \/ is_unique

\* remove_duplicates: the retain closure's verdict on one entry, given the
\* two sets as they are when it is called
IsRetained(e, rta_set, igt_set) ==
    IF e.index >= 1
    THEN TRUE
    ELSE LET is_none == ~IsSome(e.time.real_time) /\ ~IsSome(e.time.game_time)
             is_unique ==
                 \/ IsSome(e.time.real_time)
                      /\ Unwrap(e.time.real_time) \notin rta_set
                 \/ IsSome(e.time.game_time)
                      /\ Unwrap(e.time.game_time) \notin igt_set
         IN is_none \/ is_unique

\* A closure that inserts nothing
SetAfter_NoInsert(e, method, set) == set

\* The set after the closure ran on e: a synthetic entry's concrete value
\* is inserted whether or not the entry is kept
SetAfter(e, method, set) ==
    IF e.index < 1 /\ IsSome(e.time[method])
    THEN set \cup {Unwrap(e.time[method])}
    ELSE set

\* history.retain(..) of remove_duplicates, from position k on
RECURSIVE RetainUnique(_, _, _, _)
RetainUnique(h, k, rta_set, igt_set) ==
    IF k > Len(h)
    THEN <<>>
    ELSE (IF IsRetained(h[k], rta_set, igt_set) THEN <<h[k]>> ELSE <<>>)
           \o RetainUnique(h, k + 1, SetAfter(h[k], RealTime, rta_set),
                           SetAfter(h[k], GameTime, igt_set))

remove_duplicates(R) ==
    [R EXCEPT !.segments =
        [i \in DOMAIN @ |->
            [@[i] EXCEPT !.segment_history =
                RetainUnique(@, 1, SeedSet(@, RealTime), SeedSet(@, GameTime))]]]

\* A flush that removes from the first segments on
remove_items_from_cache_FromFirst(segments, index, cache) ==
    [i \in DOMAIN segments |->
        IF i <= Len(cache)
        THEN [segments[i] EXCEPT !.segment_history = HistoryRemove(@, cache[i])]
        ELSE segments[i]]

\* remove_items_from_cache: the cache holds one run index per segment of
\* the run of segments that ends right before position index
remove_items_from_cache(segments, index, cache) ==
    LET ind == index - Len(cache)
    IN [i \in DOMAIN segments |->
          IF i >= ind /\ i < ind + Len(cache)
          THEN [segments[i] EXCEPT !.segment_history =
                   HistoryRemove(@, cache[i - ind + 1])]
          ELSE segments[i]]

\* remove_none_values: the loop over the segments of one row, from
\* position index on; positions are 1-based here, so the flush at position
\* index (0-based, in the code) is the flush at index here
RECURSIVE RemoveNoneRow(_, _, _, _)
RemoveNoneRow(segments, run_index, index, cache) ==
    IF index > Len(segments)
    THEN remove_items_from_cache(segments, Len(segments) + 1, cache)
    ELSE LET element == HistoryGet(segments[index].segment_history, run_index)
         IN IF IsSome(element)
            THEN IF ~IsSome(Unwrap(element).real_time)
                      /\ ~IsSome(Unwrap(element).game_time)
                 THEN RemoveNoneRow(segments, run_index, index + 1,
                                    Append(cache, run_index))
                 ELSE RemoveNoneRow(segments, run_index, index + 1, <<>>)
            ELSE RemoveNoneRow(
                     remove_items_from_cache(segments, index, cache),
                     run_index, index + 1, <<>>)

\* remove_none_values: the loop over the rows run_index .. max_index - 1
RECURSIVE RemoveNoneRows(_, _, _)
RemoveNoneRows(segments, run_index, max_index) ==
    IF run_index >= max_index
    THEN segments
    ELSE RemoveNoneRows(RemoveNoneRow(segments, run_index, 1, <<>>),
                        run_index + 1, max_index)

remove_none_values(R) ==
    LET min_index == min_segment_history_index(R)
        m == max_attempt_history_index(R)
        max_index == (IF IsSome(m) THEN Unwrap(m) ELSE 0) + 1
    IN [R EXCEPT !.segments = RemoveNoneRows(@, min_index, max_index)]

\* fix_splits, first loop: one pass per timing method, from TimingMethodAll[k] on
RECURSIVE FixMethodsFrom(_, _)
FixMethodsFrom(R, k) ==
    IF k > Len(TimingMethodAll)
    THEN R
    ELSE FixMethodsFrom(fix_comparison_times_and_history(R, TimingMethodAll[k]),
                        k + 1)

fix_splits(R) == remove_none_values(remove_duplicates(FixMethodsFrom(R, 1)))

-----------------------------------------------------------------------------
(* Construction *)

\* The comparison names of the model: Personal Best and one more custom
\* comparison
RaceName == "Race"

ComparisonNames == {PersonalBestName, RaceName}

\* default_generators(): the names of the Comparison Generators, in
\* registration order
BestSegmentsName == "Best Segments"

GeneratorNames == <<BestSegmentsName>>

\* Segment::new(name): no times, no comparison times, an empty history
SegmentNew(name) ==
    [name |-> name,
     split_time |-> TimeDefault,
     best_segment_time |-> TimeDefault,
     comparisons |-> [c \in ComparisonNames \cup Range(GeneratorNames) |-> TimeDefault],
     segment_history |-> <<>>]

\* Attempt::new(index, time, ..)
AttemptNew(index, time) == [index |-> index, time |-> time]

\* Run::new()
RunNew ==
    [attempt_count |-> 0,
     attempt_history |-> <<>>,
     segments |-> <<>>,
     custom_comparisons |-> <<PersonalBestName>>,
     comparison_generators |-> GeneratorNames]

-----------------------------------------------------------------------------
(* The other operations of Run *)

\* Run::start_next_run
start_next_run(R) == [R EXCEPT !.attempt_count = @ + 1]

\* Run::push_segment
push_segment(R, segment) == [R EXCEPT !.segments = Append(@, segment)]

\* Run::add_attempt_with_index
add_attempt_with_index(R, time, index) ==
    [R EXCEPT !.attempt_history = Append(@, AttemptNew(index, time))]

\* The bounds of i32, the type of an Attempt's index
I32Max == 2147483647

I32Min == -I32Max - 1

\* index + 1 on i32 as a build without overflow checks computes it
WrappingIncrement(index) == IF index = I32Max THEN I32Min ELSE index + 1

\* index + 1 overflows in add_attempt: a build with overflow checks panics
AddAttemptOverflows(R) == max_attempt_history_index(R) = Some(I32Max)

\* An allocation that does not step past the maximum
NextAttemptIndex_NoIncrement(R) ==
    LET m == max_attempt_history_index(R)
        index == IF IsSome(m) THEN Unwrap(m) ELSE 0
    IN Max2(0, index)

\* Run::add_attempt: the index it allocates
NextAttemptIndex(R) ==
    LET m == max_attempt_history_index(R)
        index == IF IsSome(m) THEN Unwrap(m) ELSE 0
    IN Max2(0, WrappingIncrement(index))

\* Run::add_attempt
add_attempt(R, time) == add_attempt_with_index(R, time, NextAttemptIndex(R))

\* An add_custom_comparison that does not look for the name
add_custom_comparison_Always(R, comparison) ==
    [R EXCEPT !.custom_comparisons = Append(@, comparison)]

\* Run::add_custom_comparison
add_custom_comparison(R, comparison) ==
    IF comparison \notin Range(R.custom_comparisons)
    THEN [R EXCEPT !.custom_comparisons = Append(@, comparison)]
    ELSE R

\* ComparisonGenerator::generate of the Best Segments generator: the sum of
\* the best segment times up to each segment, absent from the first segment
\* on that has none
RECURSIVE GenerateBestSegments(_, _, _)
GenerateBestSegments(segments, i, sum) ==
    IF i > Len(segments)
    THEN segments
    ELSE LET best == segments[i].best_segment_time
             next == [m \in {RealTime, GameTime} |->
                        IF IsSome(sum[m]) /\ IsSome(best[m])
                        THEN Some(Unwrap(sum[m]) + Unwrap(best[m]))
                        ELSE None]
         IN GenerateBestSegments(
                [segments EXCEPT ![i].comparisons[BestSegmentsName] =
                    [real_time |-> next[RealTime], game_time |-> next[GameTime]]],
                i + 1, next)

\* Run::regenerate_comparisons
regenerate_comparisons(R) ==
    [R EXCEPT !.segments =
        GenerateBestSegments(@, 1, [m \in {RealTime, GameTime} |-> Some(0)])]

\* A clear_history that leaves the Segment Histories
clear_history_AttemptsOnly(R) == [R EXCEPT !.attempt_history = <<>>]

\* Run::clear_history
clear_history(R) ==
    [R EXCEPT !.attempt_history = <<>>,
              !.segments = [i \in DOMAIN @ |-> [@[i] EXCEPT !.segment_history = <<>>]]]

\* A retain with the test negated
RetainPersonalBest_Negated(custom_comparisons) ==
    SelectSeq(custom_comparisons, LAMBDA c : c # PersonalBestName)

\* clear_times: custom_comparisons.retain(|c| c == personal_best::NAME)
RetainPersonalBest(custom_comparisons) ==
    SelectSeq(custom_comparisons, LAMBDA c : c = PersonalBestName)

\* Run::clear_times
clear_times(R) ==
    LET R1 == clear_history(R)
    IN [R1 EXCEPT
          !.custom_comparisons = RetainPersonalBest(@),
          !.segments =
              [i \in DOMAIN @ |->
                  [@[i] EXCEPT
                      !.comparisons = [c \in DOMAIN @ |-> TimeDefault],
                      !.best_segment_time = TimeDefault]],
          !.attempt_count = 0]

\* Time::new().with_timing_method(method, value)
WithTimingMethod(method, value) == [TimeDefault EXCEPT ![method] = value]

\* A loop that forgets the last split when a segment has none
RECURSIVE ImportPbFrom_ForgetOnAbsent(_, _, _, _, _)
ImportPbFrom_ForgetOnAbsent(segments, timing_method, index, i, prev_time) ==
    IF i > Len(segments)
    THEN segments
    ELSE LET pb_time == segments[i].comparisons[PersonalBestName][timing_method]
             time == WithTimingMethod(timing_method,
                        IF IsSome(pb_time)
                        THEN Some(Unwrap(pb_time) - prev_time)
                        ELSE None)
         IN ImportPbFrom_ForgetOnAbsent(
                [segments EXCEPT ![i].segment_history = HistoryInsert(@, index, time)],
                timing_method, index, i + 1,
                IF IsSome(pb_time) THEN Unwrap(pb_time) ELSE 0)

\* import_pb_into_segment_history: the loop over the segments from position
\* i on, for one timing method and its index
RECURSIVE ImportPbFrom(_, _, _, _, _)
ImportPbFrom(segments, timing_method, index, i, prev_time) ==
    IF i > Len(segments)
    THEN segments
    ELSE LET pb_time == segments[i].comparisons[PersonalBestName][timing_method]
             time == WithTimingMethod(timing_method,
                        IF IsSome(pb_time)
                        THEN Some(Unwrap(pb_time) - prev_time)
                        ELSE None)
         IN ImportPbFrom(
                [segments EXCEPT ![i].segment_history = HistoryInsert(@, index, time)],
                timing_method, index, i + 1,
                IF IsSome(pb_time) THEN Unwrap(pb_time) ELSE prev_time)

\* A loop that gives both methods the same index
RECURSIVE ImportPbMethodsFrom_SameIndex(_, _, _)
ImportPbMethodsFrom_SameIndex(segments, k, index) ==
    IF k > Len(TimingMethodAll)
    THEN segments
    ELSE ImportPbMethodsFrom_SameIndex(
             ImportPbFrom(segments, TimingMethodAll[k], index - 1, 1, 0),
             k + 1, index)

\* import_pb_into_segment_history: the loop over the timing methods
RECURSIVE ImportPbMethodsFrom(_, _, _)
ImportPbMethodsFrom(segments, k, index) ==
    IF k > Len(TimingMethodAll)
    THEN segments
    ELSE ImportPbMethodsFrom(
             ImportPbFrom(segments, TimingMethodAll[k], index - 1, 1, 0),
             k + 1, index - 1)

\* Run::import_pb_into_segment_history
import_pb_into_segment_history(R) ==
    [R EXCEPT !.segments =
        ImportPbMethodsFrom(@, 1, min_segment_history_index(R))]

\* Run::import_best_segment (segment_index is a position of R.segments)
import_best_segment(R, segment_index) ==
    LET best_segment_time == R.segments[segment_index].best_segment_time
    IN IF IsSome(best_segment_time.real_time) \/ IsSome(best_segment_time.game_time)
       THEN [R EXCEPT !.segments[segment_index].segment_history =
                HistoryInsert(@, min_segment_history_index(R) - 1, best_segment_time)]
       ELSE R

\* Time::op(a, b, |a, b| a - b): per method, absent when either is
TimeSub(a, b) ==
    [m \in {RealTime, GameTime} |->
        IF IsSome(a[m]) /\ IsSome(b[m]) THEN Some(Unwrap(a[m]) - Unwrap(b[m])) ELSE None]

\* update_segment_history: the loop over the first current_split_index
\* segments, from position i on
RECURSIVE UpdateHistoryFrom(_, _, _, _, _)
UpdateHistoryFrom(segments, current_split_index, index, i, last_split_time) ==
    IF i > Len(segments) \/ i > current_split_index
    THEN segments
    ELSE LET split_time == segments[i].split_time
             d == TimeSub(split_time, last_split_time)
             segment_time == [real_time |-> d[RealTime], game_time |-> d[GameTime]]
             last == [real_time |-> IF IsSome(split_time.real_time)
                                    THEN split_time.real_time
                                    ELSE last_split_time.real_time,
                      game_time |-> IF IsSome(split_time.game_time)
                                    THEN split_time.game_time
                                    ELSE last_split_time.game_time]
         IN UpdateHistoryFrom(
                [segments EXCEPT ![i].segment_history =
                    HistoryInsert(@, index, segment_time)],
                current_split_index, index, i + 1, last)

\* An update at the highest Attempt index
update_segment_history_MaxIndex(R, current_split_index) ==
    [R EXCEPT !.segments =
        UpdateHistoryFrom(@, current_split_index,
                          Unwrap(max_attempt_history_index(R)), 1, TimeZero)]

\* Run::update_segment_history (defined for a non-empty Attempt History; the
\* code panics on .expect() otherwise)
update_segment_history(R, current_split_index) ==
    [R EXCEPT !.segments =
        UpdateHistoryFrom(@, current_split_index,
                          R.attempt_history[Len(R.attempt_history)].index, 1, TimeZero)]

-----------------------------------------------------------------------------
(* The Runs fix_splits is applied to: every Run an editor can build whose
   weight is at most MaxWeight.  Each segment, each concrete best segment or
   comparison time, each history entry and the Attempt History weigh 1. *)

MaxWeight == 5

\* The times the editor sets: negative ones for real time
TimeValues(method) == IF method = RealTime THEN {-1, 1, 2} ELSE {1, 2}

RaceValues == {1, 2}

HistoryRows == {-1, 0, 1, 2}

\* The entries the editor inserts: fully absent, one method, both methods
HistoryTimes ==
    {[real_time |-> None, game_time |-> None],
     [real_time |-> Some(1), game_time |-> None],
     [real_time |-> Some(2), game_time |-> None],
     [real_time |-> None, game_time |-> Some(1)],
     [real_time |-> Some(1), game_time |-> Some(1)]}

\* The Attempt Histories the editor builds: indices 1..n
AttemptCounts == {1, 2}

\* The fields of segment s, in the order the construction walks them
SegmentFields(s) ==
    <<[kind |-> "best", seg |-> s, method |-> RealTime],
      [kind |-> "best", seg |-> s, method |-> GameTime],
      [kind |-> "comparison", seg |-> s, name |-> PersonalBestName, method |-> RealTime],
      [kind |-> "comparison", seg |-> s, name |-> PersonalBestName, method |-> GameTime],
      [kind |-> "comparison", seg |-> s, name |-> RaceName, method |-> RealTime],
      [kind |-> "history", seg |-> s, row |-> -1],
      [kind |-> "history", seg |-> s, row |-> 0],
      [kind |-> "history", seg |-> s, row |-> 1],
      [kind |-> "history", seg |-> s, row |-> 2]>>

RECURSIVE FieldsFrom(_, _)
FieldsFrom(s, n) ==
    IF s > n THEN <<[kind |-> "attempts"]>> ELSE SegmentFields(s) \o FieldsFrom(s + 1, n)

\* What a field can be set to
FieldChoices(f) ==
    CASE f.kind = "best" -> TimeValues(f.method)
      [] f.kind = "comparison" ->
           IF f.name = RaceName THEN RaceValues ELSE TimeValues(f.method)
      [] f.kind = "history" -> HistoryTimes
      [] f.kind = "attempts" -> AttemptCounts

\* segment_mut(..) and its setters, segment_history_mut().insert(..),
\* add_attempt_with_index(..) for the indices 1..v
SetField(R, f, v) ==
    CASE f.kind = "best" ->
           [R EXCEPT !.segments[f.seg].best_segment_time[f.method] = Some(v)]
      [] f.kind = "comparison" ->
           [R EXCEPT !.segments[f.seg].comparisons[f.name][f.method] = Some(v)]
      [] f.kind = "history" ->
           [R EXCEPT !.segments[f.seg].segment_history = HistoryInsert(@, f.row, v)]
      [] f.kind = "attempts" ->
           [R EXCEPT !.attempt_history =
               [k \in 1..v |-> AttemptNew(k, TimeDefault)],
                     !.attempt_count = v]

IsPopulated(R, f) ==
    CASE f.kind = "best" -> IsSome(R.segments[f.seg].best_segment_time[f.method])
      [] f.kind = "comparison" ->
           IsSome(R.segments[f.seg].comparisons[f.name][f.method])
      [] f.kind = "history" ->
           f.row \in HistoryIndices(R.segments[f.seg].segment_history)
      [] f.kind = "attempts" -> R.attempt_history # <<>>

\* The position of the last populated field, 0 when there is none
LastPopulated(R, fields) ==
    SetMax({0} \cup {k \in DOMAIN fields : IsPopulated(R, fields[k])})

TimeWeight(t) ==
    (IF IsSome(t.real_time) THEN 1 ELSE 0) + (IF IsSome(t.game_time) THEN 1 ELSE 0)

SegmentWeight(seg) ==
    1 + TimeWeight(seg.best_segment_time)
      + TimeWeight(seg.comparisons[PersonalBestName])
      + TimeWeight(seg.comparisons[RaceName])
      + Len(seg.segment_history)

RECURSIVE SegmentsWeight(_, _)
SegmentsWeight(segments, i) ==
    IF i > Len(segments)
    THEN 0
    ELSE SegmentWeight(segments[i]) + SegmentsWeight(segments, i + 1)

Weight(R) ==
    SegmentsWeight(R.segments, 1) + (IF R.attempt_history = <<>> THEN 0 ELSE 1)

\* A Run of n segments that have a split time and nothing else, with both
\* custom comparisons and one started attempt
BareRun(n) ==
    [RunNew EXCEPT !.segments =
                       [s \in 1..n |->
                           [SegmentNew("segment") EXCEPT
                               !.split_time = [real_time |-> Some(s), game_time |-> None]]],
                   !.attempt_count = 1,
                   !.custom_comparisons = <<PersonalBestName, RaceName>>]

-----------------------------------------------------------------------------
(* fix_splits on an edited Run *)

InitFix ==
    /\ SettingsIdle
    /\ call = NoCall
    /\ \E n \in 1..MaxWeight : run = BareRun(n)
    /\ prev = <<>>
    /\ mid = <<>>
    /\ op = "new"

\* The editor sets one more field (segment_mut, add_attempt_with_index).
\* Fields are set in one fixed order: setting two fields commutes.
EditField ==
    /\ op \in {"new", "edit"}
    /\ LET fields == FieldsFrom(1, Len(run.segments))
           last == LastPopulated(run, fields)
           room == MaxWeight - Weight(run)
       IN /\ room > 0
          /\ \E k \in (last + 1)..Len(fields) :
               \E v \in FieldChoices(fields[k]) :
                 run' = SetField(run, fields[k], v)
    /\ prev' = <<>>
    /\ mid' = <<>>
    /\ op' = "edit"
    /\ UNCHANGED <<settingsVars, call>>

\* The operations that ended in a panic
PanicOf(name) == "panic in " \o name

Panicked ==
    op \in {PanicOf("fix_splits"), PanicOf("min_segment_history_index"),
            PanicOf("import_pb_into_segment_history"),
            PanicOf("update_segment_history"), PanicOf("add_attempt")}

\* fix_splits: its three passes, with the Runs between them recorded in mid.
\* It returns unless remove_none_values runs into the panic of
\* min_segment_history_index.
FixSplits ==
    /\ ~Panicked
    /\ LET fixed == FixMethodsFrom(run, 1)
           deduped == remove_duplicates(fixed)
       IN /\ ~MinSegmentHistoryIndexEnd(deduped).panic
          /\ mid' = <<fixed, deduped>>
          /\ run' = remove_none_values(deduped)
    /\ prev' = run
    /\ op' = "fix_splits"
    /\ UNCHANGED <<settingsVars, call>>

NextFix == EditField \/ FixSplits

SpecFix == InitFix /\ [][NextFix]_vars

-----------------------------------------------------------------------------
(* The life of a Run, from Run::new() on *)

MaxSegs == 1

MaxAttempts == 2

\* The lowest synthetic index the imports go down to is -MaxImported
MaxImported == 1

\* The segments a caller pushes: a fresh one and one with times and history
PushedSegments ==
    {SegmentNew("A"),
     [SegmentNew("B") EXCEPT
        !.split_time = [real_time |-> Some(3), game_time |-> Some(2)],
        !.best_segment_time = [real_time |-> Some(1), game_time |-> None],
        !.comparisons[PersonalBestName] = [real_time |-> Some(2), game_time |-> Some(2)],
        !.comparisons[RaceName] = [real_time |-> Some(1), game_time |-> None],
        !.segment_history = <<Entry(0, [real_time |-> Some(1), game_time |-> None]),
                              Entry(1, TimeDefault)>>]}

\* The indices a caller gives to add_attempt_with_index
AttemptIndices == {-1, 0, 2}

AttemptTimes == {TimeDefault}

Init ==
    /\ SettingsIdle
    /\ call = NoCall
    /\ run = RunNew
    /\ prev = <<>>
    /\ mid = <<>>
    /\ op = "new"

\* An operation that goes from run to R in one pass
Step(name, R) ==
    /\ ~Panicked
    /\ run' = R
    /\ prev' = <<>>
    /\ mid' = <<>>
    /\ op' = name
    /\ UNCHANGED <<settingsVars, call>>

PushSegment ==
    /\ Len(run.segments) < MaxSegs
    /\ \E segment \in PushedSegments :
         Step("push_segment", push_segment(run, segment))

StartNextRun ==
    /\ run.attempt_count < MaxAttempts
    /\ Step("start_next_run", start_next_run(run))

AddAttempt ==
    /\ Len(run.attempt_history) < MaxAttempts
    /\ \E time \in AttemptTimes : Step("add_attempt", add_attempt(run, time))

\* add_attempt_with_index, called as its documentation asks: with an index
\* that is not in the Attempt History yet
AddAttemptWithIndex ==
    /\ Len(run.attempt_history) < MaxAttempts
    /\ \E time \in AttemptTimes :
         \E index \in AttemptIndices :
           /\ \A k \in DOMAIN run.attempt_history :
                run.attempt_history[k].index # index
           /\ Step("add_attempt_with_index",
                   add_attempt_with_index(run, time, index))

AddCustomComparison ==
    \E comparison \in ComparisonNames :
      Step("add_custom_comparison", add_custom_comparison(run, comparison))

RegenerateComparisons ==
    Step("regenerate_comparisons", regenerate_comparisons(run))

ClearHistory == Step("clear_history", clear_history(run))

\* clear_times, with the Run it was applied to recorded in prev
ClearTimes ==
    /\ ~Panicked
    /\ run' = clear_times(run)
    /\ prev' = run
    /\ mid' = <<>>
    /\ op' = "clear_times"
    /\ UNCHANGED <<settingsVars, call>>

ImportPbIntoSegmentHistory ==
    /\ run.segments # <<>>
    /\ min_segment_history_index(run) - Len(TimingMethodAll) >= -MaxImported
    /\ Step("import_pb_into_segment_history", import_pb_into_segment_history(run))

ImportBestSegment ==
    /\ run.segments # <<>>
    /\ min_segment_history_index(run) - 1 >= -MaxImported
    /\ \E segment_index \in DOMAIN run.segments :
         Step("import_best_segment", import_best_segment(run, segment_index))

UpdateSegmentHistory ==
    /\ run.attempt_history # <<>>
    /\ \E current_split_index \in 0..Len(run.segments) :
         Step("update_segment_history",
              update_segment_history(run, current_split_index))

\* fix_splits panics in remove_none_values, after its first two passes
FixSplitsPanics ==
    /\ ~Panicked
    /\ LET fixed == FixMethodsFrom(run, 1)
           deduped == remove_duplicates(fixed)
       IN /\ MinSegmentHistoryIndexEnd(deduped).panic
          /\ mid' = <<fixed, deduped>>
          /\ run' = deduped
    /\ prev' = run
    /\ op' = PanicOf("fix_splits")
    /\ UNCHANGED <<settingsVars, call>>

\* min_segment_history_index returns
MinSegmentHistoryIndex ==
    /\ ~MinSegmentHistoryIndexEnd(run).panic
    /\ Step("min_segment_history_index", run)

\* min_segment_history_index panics
MinSegmentHistoryIndexPanics ==
    /\ MinSegmentHistoryIndexEnd(run).panic
    /\ Step(PanicOf("min_segment_history_index"), run)

\* The operations but add_attempt_with_index
NextAdd ==
    \/ FixSplitsPanics
    \/ MinSegmentHistoryIndex
    \/ MinSegmentHistoryIndexPanics
    \/ PushSegment
    \/ StartNextRun
    \/ AddAttempt
    \/ AddCustomComparison
    \/ RegenerateComparisons
    \/ FixSplits
    \/ ClearHistory
    \/ ClearTimes
    \/ ImportPbIntoSegmentHistory
    \/ ImportBestSegment
    \/ UpdateSegmentHistory

Next == NextAdd \/ AddAttemptWithIndex

\* A Run whose Attempts all come from add_attempt
SpecAdd == Init /\ [][NextAdd]_vars

Spec == Init /\ [][Next]_vars

-----------------------------------------------------------------------------
(* Run::comparisons and ComparisonsIter *)

\* Run::comparisons: the iterator starts with both slices whole; a
\* generator stands for its name
comparisons(R) == [custom |-> R.custom_comparisons, generators |-> R.comparison_generators]

\* A next that takes the generators first
ComparisonsIterNext_GeneratorsFirst(it) ==
    IF it.generators # <<>>
    THEN [item |-> Some(Head(it.generators)), it |-> [it EXCEPT !.generators = Tail(@)]]
    ELSE IF it.custom # <<>>
         THEN [item |-> Some(Head(it.custom)), it |-> [it EXCEPT !.custom = Tail(@)]]
         ELSE [item |-> None, it |-> it]

\* ComparisonsIter::next: the item it returns and the iterator it leaves
ComparisonsIterNext(it) ==
    IF it.custom # <<>>
    THEN [item |-> Some(Head(it.custom)), it |-> [it EXCEPT !.custom = Tail(@)]]
    ELSE IF it.generators # <<>>
         THEN [item |-> Some(Head(it.generators)), it |-> [it EXCEPT !.generators = Tail(@)]]
         ELSE [item |-> None, it |-> it]

\* ComparisonsIter::size_hint (both of its bounds), which is len() of the
\* ExactSizeIterator
ComparisonsIterSizeHint(it) == Len(it.custom) + Len(it.generators)

MaxNames == 2

\* Sequences over S of length at most n
RECURSIVE Lists(_, _)
Lists(S, n) ==
    IF n = 0
    THEN {<<>>}
    ELSE LET shorter == Lists(S, n - 1)
         IN shorter \cup {Append(l, x) : l \in shorter, x \in S}

OtherGeneratorName == "Average Segments"

\* The Runs comparisons() is called on: custom comparisons as
\* add_custom_comparison leaves them (no name twice), generators as
\* comparison_generators_mut() leaves them
IterRuns ==
    {[RunNew EXCEPT !.custom_comparisons = c, !.comparison_generators = g] :
        c \in {l \in Lists(ComparisonNames, MaxNames) :
                  \A i, j \in DOMAIN l : l[i] = l[j] => i = j},
        g \in Lists({BestSegmentsName, OtherGeneratorName}, MaxNames)}

InitIter ==
    /\ SettingsIdle
    /\ run \in IterRuns
    /\ prev = <<>>
    /\ mid = <<>>
    /\ op = "new"
    /\ call = NoCall

\* let it = run.comparisons(), with len() read right away
CallComparisons ==
    /\ call = NoCall
    /\ LET it == comparisons(run)
       IN call' = [fn |-> "comparisons", it |-> it, yielded |-> <<>>,
                   lens |-> <<ComparisonsIterSizeHint(it)>>, done |-> FALSE]
    /\ UNCHANGED <<runVars, settingsVars>>

\* it.next(), with len() read after it
CallComparisonsNext ==
    /\ call.fn = "comparisons"
    /\ ~call.done
    /\ LET r == ComparisonsIterNext(call.it)
       IN call' = IF IsSome(r.item)
                  THEN [call EXCEPT !.it = r.it,
                                    !.yielded = Append(@, Unwrap(r.item)),
                                    !.lens = Append(@, ComparisonsIterSizeHint(r.it))]
                  ELSE [call EXCEPT !.done = TRUE]
    /\ UNCHANGED <<runVars, settingsVars>>

NextIter == CallComparisons \/ CallComparisonsNext

SpecIter == InitIter /\ [][NextIter]_vars

\* C14: comparisons() yields len(custom_comparisons) + len(generators)
\* names, the custom comparison names in their order and then the
\* generators' names in theirs, and the length it reports is at every step
\* the number of names it has yet to yield.
ComparisonsCustomThenGenerators ==
    call.fn = "comparisons" =>
      LET all == run.custom_comparisons \o run.comparison_generators
      IN /\ Len(call.yielded) <= Len(all)
         /\ call.yielded = SubSeq(all, 1, Len(call.yielded))
         /\ Len(call.lens) = Len(call.yielded) + 1
         /\ \A k \in DOMAIN call.lens : call.lens[k] = Len(all) - (k - 1)
         /\ call.done => call.yielded = all

\* the iterator ran to its end over two custom comparisons and two generators
ComparisonsCustomThenGeneratorsWitness ==
    /\ call.fn = "comparisons"
    /\ call.done
    /\ Len(run.custom_comparisons) = 2
    /\ Len(run.comparison_generators) = 2
    /\ Len(call.yielded) = 4

-----------------------------------------------------------------------------
(* Run::extended_category_name.  A string is the sequence of its characters,
   which are all ASCII here. *)

\* str::find(ch): the position of the first ch, from 1
FindChar(s, ch) ==
    LET at == {i \in DOMAIN s : s[i] = ch}
    IN IF at = {} THEN None ELSE Some(SetMin(at))

\* str::trim_right_matches(ch)
RECURSIVE TrimRightMatches(_, _)
TrimRightMatches(s, ch) ==
    IF s # <<>> /\ s[Len(s)] = ch
    THEN TrimRightMatches(SubSeq(s, 1, Len(s) - 1), ch)
    ELSE s

\* The case folding of the letters "yes" and "no" are written with
FoldCase(ch) ==
    CASE ch = "Y" -> "y"
      [] ch = "E" -> "e"
      [] ch = "S" -> "s"
      [] ch = "N" -> "n"
      [] ch = "O" -> "o"
      [] OTHER -> ch

\* unicase::eq
UnicaseEq(a, b) ==
    /\ Len(a) = Len(b)
    /\ \A i \in DOMAIN a : FoldCase(a[i]) = FoldCase(b[i])

StrYes == <<"y", "e", "s">>

StrNo == <<"n", "o">>

\* values.concat(), for the values of one push
RECURSIVE Concat(_)
Concat(values) ==
    IF values = <<>> THEN <<>> ELSE Head(values) \o Concat(Tail(values))

\* The closure push, on the buffer and the two flags it captures
Push(st, values) ==
    LET opened == IF st.is_empty
                  THEN (IF ~st.has_pushed THEN st.buf \o <<" ", "(">> ELSE st.buf)
                  ELSE st.buf \o <<",", " ">>
    IN [buf |-> opened \o Concat(values), is_empty |-> FALSE, has_pushed |-> TRUE]

\* The loop over metadata.variables(), from position k on
RECURSIVE PushVariables(_, _, _)
PushVariables(st, variables, k) ==
    IF k > Len(variables)
    THEN st
    ELSE LET name == TrimRightMatches(variables[k].name, "?")
             value == variables[k].value
             pushed == IF UnicaseEq(value, StrYes)
                       THEN Push(st, <<name>>)
                       ELSE IF UnicaseEq(value, StrNo)
                            THEN Push(st, <<<<"N", "o", " ">>, value>>)
                            ELSE Push(st, <<value>>)
         IN PushVariables(pushed, variables, k + 1)

PushRegion(st, metadata) ==
    IF metadata.region_name # <<>> THEN Push(st, <<metadata.region_name>>) ELSE st

StrEmulator == <<"E", "m", "u", "l", "a", "t", "o", "r">>

PushPlatform(st, metadata) ==
    LET platform == metadata.platform_name
    IN CASE platform # <<>> /\ metadata.uses_emulator ->
              Push(st, <<platform, <<" ">> \o StrEmulator>>)
         [] platform # <<>> /\ ~metadata.uses_emulator -> Push(st, <<platform>>)
         [] platform = <<>> /\ metadata.uses_emulator -> Push(st, <<StrEmulator>>)
         [] OTHER -> st

\* Run::extended_category_name, of the category name and the metadata of self
extended_category_name(category_name, metadata, show_region, show_platform, show_variables) ==
    IF category_name = <<>>
    THEN category_name
    ELSE LET i == FindChar(category_name, "(")
             u == IF IsSome(i)
                  THEN FindChar([k \in 1..Len(category_name) |->
                                    IF k < Unwrap(i) THEN " " ELSE category_name[k]],
                                ")")
                  ELSE None
             st0 == IF IsSome(u)
                    THEN [buf |-> SubSeq(category_name, 1, Unwrap(u) - 1),
                          is_empty |-> Unwrap(u) = Unwrap(i) + 1,
                          has_pushed |-> FALSE]
                    ELSE [buf |-> category_name, is_empty |-> TRUE,
                          has_pushed |-> FALSE]
             after_parenthesis ==
                 IF IsSome(u)
                 THEN SubSeq(category_name, Unwrap(u), Len(category_name))
                 ELSE <<>>
             st1 == IF show_variables
                    THEN PushVariables(st0, metadata.variables, 1)
                    ELSE st0
             st2 == IF show_region THEN PushRegion(st1, metadata) ELSE st1
             st3 == IF show_platform THEN PushPlatform(st2, metadata) ELSE st2
         IN IF after_parenthesis # <<>>
            THEN (IF ~st3.has_pushed
                  THEN category_name
                  ELSE st3.buf \o after_parenthesis)
            ELSE IF ~st3.is_empty
                 THEN st3.buf \o <<")">>
                 ELSE st3.buf

StrAny == <<"A", "n", "y", "%">>

StrAnyNoTuner == StrAny \o <<" ", "(", "N", "o", " ", "T", "u", "n", "e", "r", ")">>

\* The category names of the calls: none, one without a group, with a
\* group, with an empty group, with text after the group
CategoryNames ==
    {<<>>, StrAny, StrAnyNoTuner, StrAny \o <<" ", "(", ")">>,
     StrAny \o <<" ", "(", "A", ")", " ", "B">>}

VariableNames == {<<"A", "m", "i", "i", "b", "o">>, <<"O", "o", "B", "?">>}

VariableValues == {<<"N", "o">>, <<"n", "O">>, <<"Y", "e", "s">>, <<"1", "0", "0">>}

MaxVariables == 1

\* RunMetadata: the variables in the order variables() yields them, the
\* region and platform names, the emulator flag
Metadatas ==
    [variables : Lists([name : VariableNames, value : VariableValues], MaxVariables),
     region_name : {<<>>, <<"J", "P", "N">>},
     platform_name : {<<>>, <<"W", "i", "i">>},
     uses_emulator : BOOLEAN]

\* A call that has not returned
NameCalls ==
    [fn : {"extended_category_name"},
     category_name : CategoryNames,
     metadata : Metadatas,
     show_region : BOOLEAN,
     show_platform : BOOLEAN,
     show_variables : BOOLEAN,
     result : {None}]

InitName ==
    /\ SettingsIdle
    /\ run = RunNew
    /\ prev = <<>>
    /\ mid = <<>>
    /\ op = "new"
    /\ call \in NameCalls

\* The call returns
CallExtendedCategoryName ==
    /\ call.fn = "extended_category_name"
    /\ call.result = None
    /\ call' = [call EXCEPT !.result =
                  Some(extended_category_name(call.category_name, call.metadata,
                                              call.show_region, call.show_platform,
                                              call.show_variables))]
    /\ UNCHANGED <<runVars, settingsVars>>

NextName == CallExtendedCategoryName

SpecName == InitName /\ [][NextName]_vars

\* The call of the scenario has returned: category "Any% (No Tuner)", one
\* variable with a value that is "no" but for case, variables shown only
NoVariableScenario ==
    /\ call.fn = "extended_category_name"
    /\ IsSome(call.result)
    /\ call.category_name = StrAnyNoTuner
    /\ Len(call.metadata.variables) = 1
    /\ UnicaseEq(call.metadata.variables[1].value, StrNo)
    /\ call.show_variables
    /\ ~call.show_region
    /\ ~call.show_platform

\* C15: in that scenario extended_category_name returns
\* "Any% (No Tuner, No <Variable>)", <Variable> being the variable's name
\* (with or without the question marks at its end).
NoVariableNamedInGroup ==
    NoVariableScenario =>
      \E name \in {call.metadata.variables[1].name,
                   TrimRightMatches(call.metadata.variables[1].name, "?")} :
        Unwrap(call.result) =
          SubSeq(StrAnyNoTuner, 1, Len(StrAnyNoTuner) - 1)
            \o <<",", " ", "N", "o", " ">> \o name \o <<")">>

-----------------------------------------------------------------------------
(* Properties of fix_splits, on SpecFix *)

\* The state right after fix_splits ran: prev is the Run it was applied to,
\* mid[1] the Run after the per-method passes, mid[2] after remove_duplicates
Fixed == op = "fix_splits"

HistoryOf(R, i) == R.segments[i].segment_history

ComparisonOf(R, i, c, m) == R.segments[i].comparisons[c][m]

BestOf(R, i, m) == R.segments[i].best_segment_time[m]

Methods == Range(TimingMethodAll)

\* C1: fix_splits is idempotent: on the Run fix_splits returned, fix_splits
\* changes nothing.
FixSplitsIdempotent == Fixed => fix_splits(run) = run

\* fix_splits changed a Run that has an Attempt History and a segment whose
\* history has entries of either sign
FixSplitsIdempotentWitness ==
    /\ Fixed
    /\ run # prev
    /\ prev.attempt_history # <<>>
    /\ \E i \in SegIndices(prev) :
         /\ \E e \in Range(HistoryOf(prev, i)) : e.index < 1
         /\ \E e \in Range(HistoryOf(prev, i)) : e.index >= 1

\* C2: after fix_splits, for every custom comparison and timing method, the
\* concrete comparison times are non-decreasing in run order.
ComparisonTimesNonDecreasing ==
    Fixed =>
      \A c \in Range(run.custom_comparisons) : \A m \in Methods :
        \A i, j \in SegIndices(run) :
          (/\ i < j
           /\ IsSome(ComparisonOf(run, i, c, m))
           /\ IsSome(ComparisonOf(run, j, c, m)))
          => Unwrap(ComparisonOf(run, i, c, m)) <= Unwrap(ComparisonOf(run, j, c, m))

\* fix_splits ran on a Run whose comparison times went down from one
\* segment to a later one
ComparisonTimesNonDecreasingWitness ==
    /\ Fixed
    /\ \E c \in Range(prev.custom_comparisons) : \E m \in Methods :
         \E i, j \in SegIndices(prev) :
           /\ i < j
           /\ IsSome(ComparisonOf(prev, i, c, m))
           /\ IsSome(ComparisonOf(prev, j, c, m))
           /\ Unwrap(ComparisonOf(prev, i, c, m)) > Unwrap(ComparisonOf(prev, j, c, m))

\* C3: after fix_splits, where a segment's best_segment_time is set for a
\* method, every history entry of the segment with a concrete time for that
\* method has a time at or above it.
HistoryAtLeastBest ==
    Fixed =>
      \A i \in SegIndices(run) : \A m \in Methods :
        IsSome(BestOf(run, i, m)) =>
          \A e \in Range(HistoryOf(run, i)) :
            IsSome(e.time[m]) => Unwrap(e.time[m]) >= Unwrap(BestOf(run, i, m))

\* fix_splits ran on a segment with a history entry below its Best Segment
\* Time, and the entry is still there
HistoryAtLeastBestWitness ==
    /\ Fixed
    /\ \E i \in SegIndices(prev) : \E m \in Methods :
         /\ IsSome(BestOf(prev, i, m))
         /\ IsSome(BestOf(run, i, m))
         /\ \E e \in Range(HistoryOf(prev, i)) :
              /\ IsSome(e.time[m])
              /\ Unwrap(e.time[m]) < Unwrap(BestOf(prev, i, m))
              /\ e.index \in HistoryIndices(HistoryOf(run, i))

\* C4: after fix_splits, for every method and every segment i whose Personal
\* Best split time and that of segment i-1 are both concrete, the
\* best_segment_time of segment i is set and at most the difference of the two.
BestAtMostPersonalBestSegment ==
    Fixed =>
      \A m \in Methods : \A i \in SegIndices(run) :
        (/\ i > 1
         /\ IsSome(ComparisonOf(run, i, PersonalBestName, m))
         /\ IsSome(ComparisonOf(run, i - 1, PersonalBestName, m)))
        => /\ IsSome(BestOf(run, i, m))
           /\ Unwrap(BestOf(run, i, m)) <=
                Unwrap(ComparisonOf(run, i, PersonalBestName, m))
                  - Unwrap(ComparisonOf(run, i - 1, PersonalBestName, m))

\* fix_splits ran on a segment with both Personal Best split times whose
\* Best Segment Time was absent or above their difference
BestAtMostPersonalBestSegmentWitness ==
    /\ Fixed
    /\ \E m \in Methods : \E i \in SegIndices(run) :
         /\ i > 1
         /\ IsSome(ComparisonOf(run, i, PersonalBestName, m))
         /\ IsSome(ComparisonOf(run, i - 1, PersonalBestName, m))
         /\ \/ ~IsSome(BestOf(prev, i, m))
            \/ Unwrap(BestOf(prev, i, m)) >
                 Unwrap(ComparisonOf(run, i, PersonalBestName, m))
                   - Unwrap(ComparisonOf(run, i - 1, PersonalBestName, m))

\* C5, as stated: remove_duplicates and remove_none_values, as run by
\* fix_splits, never delete a history entry whose index is >= 1.
ActualRunsNeverDeleted ==
    Fixed =>
      \A i \in SegIndices(run) : \A e \in Range(HistoryOf(mid[1], i)) :
        e.index >= 1 => e.index \in HistoryIndices(HistoryOf(run, i))

\* C5, amended: remove_duplicates never deletes a history entry whose index
\* is >= 1, and remove_none_values deletes only entries that have no time for
\* either method (their index can be >= 1).
OnlySyntheticOrEmptyDeleted ==
    Fixed =>
      \A i \in SegIndices(run) :
        /\ \A e \in Range(HistoryOf(mid[1], i)) :
             e.index >= 1 => e \in Range(HistoryOf(mid[2], i))
        /\ \A e \in Range(HistoryOf(mid[2], i)) :
             e \notin Range(HistoryOf(run, i)) => e.time = TimeDefault

\* remove_none_values deleted an entry of an actual run from a history and
\* left another one, which has a time, in it
OnlySyntheticOrEmptyDeletedWitness ==
    /\ Fixed
    /\ \E i \in SegIndices(run) :
         /\ \E e \in Range(HistoryOf(mid[2], i)) :
              e.index >= 1 /\ e \notin Range(HistoryOf(run, i))
         /\ \E f \in Range(HistoryOf(mid[1], i)) :
              /\ f.index >= 1
              /\ f.time # TimeDefault
              /\ f \in Range(HistoryOf(run, i))

\* A history with entries at -1, 0 and 1 that all have real time v
DuplicateScenario(h, v) ==
    \A r \in {-1, 0, 1} :
      /\ IsSome(HistoryGet(h, r))
      /\ Unwrap(HistoryGet(h, r)).real_time = Some(v)

\* C8, as stated: for a history with synthetic entries at 0 and -1 and an
\* actual-run entry at 1 that all have the same real time, remove_duplicates
\* leaves exactly one of the two synthetic entries and the actual-run entry
\* as it was.
OneSyntheticDuplicateRemains ==
    Fixed =>
      \A i \in SegIndices(run) : \A v \in TimeValues(RealTime) :
        DuplicateScenario(HistoryOf(mid[1], i), v) =>
          LET d == HistoryOf(mid[2], i)
          IN /\ Cardinality({-1, 0} \cap HistoryIndices(d)) = 1
             /\ HistoryGet(d, 1) = HistoryGet(HistoryOf(mid[1], i), 1)

\* C8, amended: for such a history whose two synthetic entries have no game
\* time, remove_duplicates leaves neither synthetic entry (both repeat the
\* time of the actual run) and the actual-run entry as it was.
NoSyntheticDuplicateRemains ==
    Fixed =>
      \A i \in SegIndices(run) : \A v \in TimeValues(RealTime) :
        LET h == HistoryOf(mid[1], i)
        IN (/\ DuplicateScenario(h, v)
            /\ \A r \in {-1, 0} : ~IsSome(Unwrap(HistoryGet(h, r)).game_time))
           => LET d == HistoryOf(mid[2], i)
              IN /\ {-1, 0} \cap HistoryIndices(d) = {}
                 /\ HistoryGet(d, 1) = HistoryGet(h, 1)

\* remove_duplicates ran on such a history
NoSyntheticDuplicateRemainsWitness ==
    /\ Fixed
    /\ \E i \in SegIndices(run) : \E v \in TimeValues(RealTime) :
         LET h == HistoryOf(mid[1], i)
         IN /\ DuplicateScenario(h, v)
            /\ \A r \in {-1, 0} : ~IsSome(Unwrap(HistoryGet(h, r)).game_time)

\* The values of method m seen before the entry at position k of history h
\* is looked at: those of the actual runs of h, wherever they are, and those
\* of the synthetic entries before position k
SeenBefore(h, k, m) ==
    {Unwrap(h[j].time[m]) :
        j \in {x \in DOMAIN h : /\ IsSome(h[x].time[m])
                                 /\ (h[x].index >= 1 \/ x < k)}}

\* The rule for the entry at position k of history h
KeptByRule(h, k) ==
    \/ h[k].index >= 1
    \/ \A m \in Methods : ~IsSome(h[k].time[m])
    \/ \E m \in Methods :
         IsSome(h[k].time[m]) /\ Unwrap(h[k].time[m]) \notin SeenBefore(h, k, m)

\* The positions of h in increasing order, those in K only
RECURSIVE PositionsFrom(_, _, _)
PositionsFrom(h, k, K) ==
    IF k > Len(h)
    THEN <<>>
    ELSE (IF k \in K THEN <<h[k]>> ELSE <<>>) \o PositionsFrom(h, k + 1, K)

\* C19: remove_duplicates keeps, per segment, every entry of index >= 1 and
\* every entry without a time for either method; it keeps a synthetic entry
\* (index <= 0) with a time exactly when one of its times, real time against
\* the real times and game time against the game times, was not seen among
\* the actual runs of the segment or the synthetic entries before it; the
\* entries it keeps stay in their order.
RemoveDuplicatesKeepsFirstSeen ==
    Fixed =>
      \A i \in SegIndices(mid[1]) :
        LET h == HistoryOf(mid[1], i)
        IN HistoryOf(mid[2], i) =
             PositionsFrom(h, 1, {k \in DOMAIN h : KeptByRule(h, k)})

\* remove_duplicates kept a synthetic entry and dropped a later one that
\* repeats its real time, a time no actual run of the segment has
RemoveDuplicatesKeepsFirstSeenWitness ==
    /\ Fixed
    /\ \E i \in SegIndices(mid[1]) :
         LET h == HistoryOf(mid[1], i)
             d == HistoryOf(mid[2], i)
         IN \E j, k \in DOMAIN h :
              /\ j < k
              /\ h[k].index <= 0
              /\ IsSome(h[k].time.real_time)
              /\ h[j].time.real_time = h[k].time.real_time
              /\ h[k].time.real_time \notin
                   {e.time.real_time : e \in Range(IterActualRuns(h))}
              /\ h[j] \in Range(d)
              /\ h[k] \notin Range(d)

\* The entry of segment i at row r has no time for either method
AbsentAt(R, i, r) == HistoryGet(HistoryOf(R, i), r) = Some(TimeDefault)

\* The entry of segment i at row r has a time
ConcreteAt(R, i, r) ==
    /\ IsSome(HistoryGet(HistoryOf(R, i), r))
    /\ HistoryGet(HistoryOf(R, i), r) # Some(TimeDefault)

\* After segment i come segments that all have an entry at row r, up to one
\* whose entry has a time
FollowedByConcrete(R, i, r) ==
    \E j \in SegIndices(R) :
      /\ j > i
      /\ ConcreteAt(R, j, r)
      /\ \A l \in (i + 1)..(j - 1) : IsSome(HistoryGet(HistoryOf(R, l), r))

\* The rows from the minimum Segment History index to the maximum Attempt
\* index: none when there is no Attempt
RowsToMaxAttempt(R) ==
    IF IsSome(max_attempt_history_index(R))
    THEN min_segment_history_index(R)..Unwrap(max_attempt_history_index(R))
    ELSE {}

\* The same rows, and those up to 0 when there is no Attempt
RowsToMaxAttemptOrZero(R) ==
    IF IsSome(max_attempt_history_index(R))
    THEN min_segment_history_index(R)..Unwrap(max_attempt_history_index(R))
    ELSE min_segment_history_index(R)..0

\* remove_none_values took before to after, on the rows given: the absent
\* entries left on these rows are followed by a concrete entry, those that
\* were not are gone, and nothing else is
PrunedOnRows(before, after, rows) ==
    \A i \in SegIndices(before) :
      LET h == HistoryOf(before, i)
      IN /\ HistoryOf(after, i) =
              SelectSeq(h, LAMBDA e :
                  ~(/\ e.index \in rows
                    /\ e.time = TimeDefault
                    /\ ~FollowedByConcrete(before, i, e.index)))
         /\ \A r \in rows :
              AbsentAt(after, i, r) => FollowedByConcrete(after, i, r)

\* C20, as stated: after remove_none_values, on the rows from the minimum
\* Segment History index to the maximum Attempt index, every fully absent
\* entry left is followed, through later segments that all have an entry at
\* the row, by a concrete entry; every fully absent entry not so followed is
\* removed; no concrete entry and no entry outside these rows is removed.
PrunedUpToMaxAttempt ==
    Fixed => PrunedOnRows(mid[2], run, RowsToMaxAttempt(mid[2]))

\* C20, amended: the same, the rows reaching up to 0 when the Run has no
\* Attempt.
PrunedUpToMaxAttemptOrZero ==
    Fixed => PrunedOnRows(mid[2], run, RowsToMaxAttemptOrZero(mid[2]))

\* remove_none_values ran on a Run of two segments without Attempts: it
\* removed the absent entries both have at a row, which nothing follows, and
\* left an absent entry at a row above 0
PrunedUpToMaxAttemptOrZeroWitness ==
    /\ Fixed
    /\ mid[2].attempt_history = <<>>
    /\ Len(mid[2].segments) = 2
    /\ \E r \in RowsToMaxAttemptOrZero(mid[2]) :
         \A i \in {1, 2} :
           AbsentAt(mid[2], i, r) /\ ~IsSome(HistoryGet(HistoryOf(run, i), r))
    /\ \E i \in {1, 2} : \E r \in {1, 2} :
         AbsentAt(mid[2], i, r) /\ AbsentAt(run, i, r)

\* C10: after fix_splits no segment has a negative best_segment_time, for
\* either method.
NoNegativeBestSegment ==
    Fixed =>
      \A i \in SegIndices(run) : \A m \in Methods :
        IsSome(BestOf(run, i, m)) => Unwrap(BestOf(run, i, m)) >= 0

\* fix_splits ran on a Run with a negative Best Segment Time and a negative
\* Personal Best split time
NoNegativeBestSegmentWitness ==
    /\ Fixed
    /\ \E i \in SegIndices(prev) : \E m \in Methods :
         IsSome(BestOf(prev, i, m)) /\ Unwrap(BestOf(prev, i, m)) < 0
    /\ \E i \in SegIndices(prev) : \E m \in Methods :
         /\ IsSome(ComparisonOf(prev, i, PersonalBestName, m))
         /\ Unwrap(ComparisonOf(prev, i, PersonalBestName, m)) < 0

-----------------------------------------------------------------------------
(* Properties of the Attempt History and of custom_comparisons *)

\* C6: add_attempt called n times on a new Run gives an Attempt History of
\* length n whose k-th element has index k.
AttemptsIndexedInCallOrder ==
    \A k \in DOMAIN run.attempt_history : run.attempt_history[k].index = k

\* add_attempt was called on a Run that had an Attempt already
AttemptsIndexedInCallOrderWitness ==
    op = "add_attempt" /\ Len(run.attempt_history) >= 2

\* C7: whatever the Attempt History, add_attempt appends exactly one Attempt,
\* with index max(maximum existing index, 0) + 1, which is >= 1.
AddAttemptAllocatesPositive ==
    [][op' = "add_attempt" =>
         LET n == Len(run.attempt_history)
             existing == {run.attempt_history[k].index : k \in 1..n}
         IN /\ Len(run'.attempt_history) = n + 1
            /\ SubSeq(run'.attempt_history, 1, n) = run.attempt_history
            /\ run'.attempt_history[n + 1].index = SetMax(existing \cup {0}) + 1
            /\ run'.attempt_history[n + 1].index >= 1]_vars

\* C9: from Run::new(), after any sequence of the operations, the custom
\* comparison list contains "Personal Best".
PersonalBestListed == PersonalBestName \in Range(run.custom_comparisons)

\* clear_times ran on a Run with another custom comparison on the list and
\* took it off
PersonalBestListedWitness ==
    /\ op = "clear_times"
    /\ RaceName \in Range(prev.custom_comparisons)
    /\ run.custom_comparisons = <<PersonalBestName>>

-----------------------------------------------------------------------------
(* The life of SettingsMap handles *)

\* The last operation: its name, the slot of the handle it made, wrote to or
\* dropped, and whether it replaced a value by a different one
SettingsOp(name, s, replaced) == [name |-> name, slot |-> s, replaced |-> replaced]

InitSettings ==
    /\ SettingsIdle
    /\ call = NoCall
    /\ run = RunNew
    /\ prev = <<>>
    /\ mid = <<>>
    /\ op = "new"

\* let s = SettingsMap::new()
MapNew ==
    /\ \E s \in Slots :
         /\ ~IsHandle(maps, s)
         /\ LET r == SettingsMapNew(maps, arcs, s, NextAddr(arcs))
            IN maps' = r.maps /\ arcs' = r.arcs
         /\ latest' = [latest EXCEPT ![s] = Some(HashMapNew)]
         /\ sop' = SettingsOp("new", s, FALSE)
    /\ clones' = clones
    /\ UNCHANGED <<runVars, call>>

\* let dst = src.clone()
MapClone ==
    /\ \E src, dst \in Slots :
         /\ IsHandle(maps, src)
         /\ ~IsHandle(maps, dst)
         /\ LET r == SettingsMapClone(maps, arcs, src, dst)
            IN maps' = r.maps /\ arcs' = r.arcs
         /\ latest' = [latest EXCEPT ![dst] = latest[src]]
         /\ clones' = clones \cup {[pair |-> {src, dst}, touched |-> FALSE]}
         /\ sop' = SettingsOp("clone", dst, FALSE)
    /\ UNCHANGED <<runVars, call>>

\* s.insert(key, value)
MapInsert ==
    /\ \E s \in Slots : \E key \in SettingKeys : \E value \in SettingValues :
         /\ IsHandle(maps, s)
         /\ LET addr == IF StrongCount(maps, Unwrap(maps[s])) = 1
                         THEN Unwrap(maps[s])
                         ELSE NextAddr(arcs)
                r == insert(maps, arcs, s, key, value, addr)
            IN maps' = r.maps /\ arcs' = r.arcs
         /\ latest' = [latest EXCEPT ![s] = Some(HashMapInsert(Unwrap(@), key, value))]
         /\ clones' = {[c EXCEPT !.touched = @ \/ s \in c.pair] : c \in clones}
         /\ sop' = SettingsOp("insert", s,
                              get(maps, arcs, s, key) \notin {None, Some(value)})
    /\ UNCHANGED <<runVars, call>>

\* drop(s)
MapDrop ==
    /\ \E s \in Slots :
         /\ IsHandle(maps, s)
         /\ LET r == SettingsMapDrop(maps, arcs, s)
            IN maps' = r.maps /\ arcs' = r.arcs
         /\ latest' = [latest EXCEPT ![s] = None]
         /\ clones' = {c \in clones : s \notin c.pair}
         /\ sop' = SettingsOp("drop", s, FALSE)
    /\ UNCHANGED <<runVars, call>>

NextSettings == MapNew \/ MapClone \/ MapInsert \/ MapDrop

SpecSettings == InitSettings /\ [][NextSettings]_vars

Handles(M) == {s \in Slots : IsHandle(M, s)}

\* C11: an insert through one handle leaves what every other handle returns
\* from get, for every key, and from iter as it was; so for a clone and its
\* source, either way.
InsertLeavesOtherHandles ==
    [][sop'.name = "insert" =>
         \A a \in Handles(maps) \ {sop'.slot} :
           /\ a \in Handles(maps')
           /\ \A k \in SettingKeys : get(maps', arcs', a, k) = get(maps, arcs, a, k)
           /\ iter(maps', arcs', a) = iter(maps, arcs, a)]_vars

\* insert was called on one of a clone and its source, and the two now
\* differ
InsertLeavesOtherHandlesWitness ==
    /\ sop.name = "insert"
    /\ \E c \in clones :
         /\ sop.slot \in c.pair
         /\ \E a, b \in c.pair : iter(maps, arcs, a) # iter(maps, arcs, b)

\* C12: is_unchanged(a, b) is true only if a and b hold the same pairs; for a
\* clone and its source it is true as long as insert was called on neither
\* since the clone, and false once insert was called on one of them.
IsUnchangedTracksInserts ==
    /\ \A a, b \in Handles(maps) :
         is_unchanged(maps, arcs, a, b) => iter(maps, arcs, a) = iter(maps, arcs, b)
    /\ \A c \in clones : \A a, b \in c.pair :
         a # b => (is_unchanged(maps, arcs, a, b) <=> ~c.touched)

\* insert was called on one of a clone and its source with the value that
\* was stored: the two hold the same pairs and is_unchanged is false
IsUnchangedTracksInsertsWitness ==
    \E c \in clones : \E a, b \in c.pair :
      /\ a # b
      /\ c.touched
      /\ iter(maps, arcs, a) = iter(maps, arcs, b)
      /\ iter(maps, arcs, a) # {}
      /\ ~is_unchanged(maps, arcs, a, b)

\* C13: get(k) returns the value of the most recent insert for k, or none if
\* there was no insert for k, and iter yields the pairs of the inserted keys
\* with their most recent values.
GetReturnsLatestInsert ==
    \A s \in Handles(maps) :
      /\ \A k \in SettingKeys : get(maps, arcs, s, k) = Unwrap(latest[s])[k]
      /\ iter(maps, arcs, s) =
           {<<k, Unwrap(Unwrap(latest[s])[k])>> :
               k \in {x \in SettingKeys : IsSome(Unwrap(latest[s])[x])}}

\* an insert replaced the value of a key in a map that has both keys
GetReturnsLatestInsertWitness ==
    /\ sop.name = "insert"
    /\ sop.replaced
    /\ Cardinality(iter(maps, arcs, sop.slot)) = Cardinality(SettingKeys)

-----------------------------------------------------------------------------
(* Properties of the operations of Run, on Spec *)

\* C16: fix_splits and min_segment_history_index, called on a Run without
\* segments, end in a panic: neither ever returns from such a Run, whatever
\* its Attempt History and custom comparisons.
NoSegmentsNoReturn ==
    /\ op = "fix_splits" => prev.segments # <<>>
    /\ op = "min_segment_history_index" => run.segments # <<>>

\* fix_splits panicked on a Run without segments that has an Attempt and a
\* second custom comparison
NoSegmentsNoReturnWitness ==
    /\ op = PanicOf("fix_splits")
    /\ prev.segments = <<>>
    /\ prev.attempt_history # <<>>
    /\ Len(prev.custom_comparisons) = 2

\* C18: from Run::new() on, the custom comparison list has no name twice,
\* and add_custom_comparison with a name that is on the list leaves the list
\* as it is.
CustomComparisonsDistinct ==
    /\ \A i, j \in DOMAIN run.custom_comparisons :
         run.custom_comparisons[i] = run.custom_comparisons[j] => i = j
    /\ \A comparison \in Range(run.custom_comparisons) :
         add_custom_comparison(run, comparison).custom_comparisons
           = run.custom_comparisons

\* add_custom_comparison was called with "Personal Best", the one name on
\* the list, and left the list as it was
CustomComparisonsDistinctWitness ==
    /\ op = "add_custom_comparison"
    /\ run.custom_comparisons = <<PersonalBestName>>
    /\ run.segments # <<>>

-----------------------------------------------------------------------------
(* clear_times on a Run with segments, times, history and attempts *)

MaxClearSegs == 2

\* The Runs clear_times is called on: pushed segments in any order, with
\* or without a second custom comparison, Attempts and an attempt count
ClearRuns ==
    {[RunNew EXCEPT !.segments = segments,
                    !.custom_comparisons = custom_comparisons,
                    !.attempt_history = [k \in 1..n |-> AttemptNew(k, TimeDefault)],
                    !.attempt_count = n + extra] :
        segments \in Lists(PushedSegments, MaxClearSegs),
        custom_comparisons \in {<<PersonalBestName>>, <<PersonalBestName, RaceName>>},
        n \in 0..MaxAttempts,
        extra \in {0, 1}}

InitClear ==
    /\ SettingsIdle
    /\ call = NoCall
    /\ run \in ClearRuns
    /\ prev = <<>>
    /\ mid = <<>>
    /\ op = "new"

NextClear == ClearTimes

SpecClear == InitClear /\ [][NextClear]_vars

\* C17: after clear_times the Attempt History and every Segment History are
\* empty, every segment has no comparison time and no best segment time,
\* attempt_count is 0, no custom comparison but "Personal Best" is listed,
\* and the segments are as many as before, with the same names in the same
\* order.
ClearTimesClearsAll ==
    op = "clear_times" =>
      /\ run.attempt_history = <<>>
      /\ \A i \in SegIndices(run) :
           /\ run.segments[i].segment_history = <<>>
           /\ \A c \in DOMAIN run.segments[i].comparisons :
                run.segments[i].comparisons[c] = TimeDefault
           /\ run.segments[i].best_segment_time = TimeDefault
      /\ run.attempt_count = 0
      /\ Range(run.custom_comparisons) \subseteq {PersonalBestName}
      /\ Len(run.segments) = Len(prev.segments)
      /\ \A i \in SegIndices(run) : run.segments[i].name = prev.segments[i].name

\* clear_times ran on a Run with two segments of different names, one of
\* them with times and history, with Attempts, an attempt count and a
\* second custom comparison
ClearTimesClearsAllWitness ==
    /\ op = "clear_times"
    /\ Len(prev.segments) = 2
    /\ prev.segments[1].name # prev.segments[2].name
    /\ prev.segments[1].segment_history # <<>>
    /\ prev.segments[1].best_segment_time # TimeDefault
    /\ prev.attempt_history # <<>>
    /\ prev.attempt_count > 0
    /\ RaceName \in Range(prev.custom_comparisons)

-----------------------------------------------------------------------------
(* What fix_splits leaves of the histories and what it leaves alone, on
   SpecFix *)

\* C21: after fix_splits, where a segment has no best_segment_time for a
\* method, no entry of its Segment History has a time for that method.
NoBestNoHistoryTime ==
    Fixed =>
      \A i \in SegIndices(run) : \A m \in Methods :
        ~IsSome(BestOf(run, i, m)) =>
          \A e \in Range(HistoryOf(run, i)) : ~IsSome(e.time[m])

\* fix_splits ran on a segment without a best_segment_time for a method
\* and with an actual run that has a time for it, left the segment without
\* one and took the entry out
NoBestNoHistoryTimeWitness ==
    /\ Fixed
    /\ \E i \in SegIndices(prev) : \E m \in Methods :
         /\ ~IsSome(BestOf(prev, i, m))
         /\ ~IsSome(BestOf(run, i, m))
         /\ \E e \in Range(HistoryOf(prev, i)) :
              /\ e.index >= 1
              /\ IsSome(e.time[m])
              /\ e.index \notin HistoryIndices(HistoryOf(run, i))

\* Time t is time u or, for some method, above it: each method has a time
\* in both or in neither, and none of t is below that of u
NotLowered(t, u) ==
    \A m \in Methods :
      /\ IsSome(t[m]) <=> IsSome(u[m])
      /\ IsSome(t[m]) => Unwrap(t[m]) >= Unwrap(u[m])

\* C26: fix_splits leaves the Attempt History, attempt_count, the custom
\* comparison list, the number and order of the segments and every split
\* time as they were; it changes best segment times, comparison times and
\* histories only, lowers no comparison time and no time of a history
\* entry it leaves, and raises no best segment time that was set and not
\* negative.
FixSplitsFrame ==
    Fixed =>
      /\ run.attempt_history = prev.attempt_history
      /\ run.attempt_count = prev.attempt_count
      /\ run.custom_comparisons = prev.custom_comparisons
      /\ run.comparison_generators = prev.comparison_generators
      /\ Len(run.segments) = Len(prev.segments)
      /\ \A i \in SegIndices(prev) :
           LET a == prev.segments[i]
               b == run.segments[i]
           IN /\ b.name = a.name
              /\ b.split_time = a.split_time
              /\ [b EXCEPT !.best_segment_time = a.best_segment_time,
                           !.comparisons = a.comparisons,
                           !.segment_history = a.segment_history] = a
              /\ \A c \in DOMAIN a.comparisons :
                   IF c \in Range(prev.custom_comparisons)
                   THEN NotLowered(b.comparisons[c], a.comparisons[c])
                   ELSE b.comparisons[c] = a.comparisons[c]
              /\ \A e \in Range(b.segment_history) :
                   /\ IsSome(HistoryGet(a.segment_history, e.index))
                   /\ NotLowered(e.time, Unwrap(HistoryGet(a.segment_history, e.index)))
              /\ \A m \in Methods :
                   (IsSome(a.best_segment_time[m]) /\ Unwrap(a.best_segment_time[m]) >= 0)
                     => /\ IsSome(b.best_segment_time[m])
                        /\ Unwrap(b.best_segment_time[m]) <= Unwrap(a.best_segment_time[m])

\* fix_splits ran on a Run with Attempts, an attempt count and split
\* times, lowered a best segment time and raised a comparison time
FixSplitsFrameWitness ==
    /\ Fixed
    /\ prev.attempt_history # <<>>
    /\ prev.attempt_count > 0
    /\ \A i \in SegIndices(prev) : prev.segments[i].split_time # TimeDefault
    /\ \E i \in SegIndices(prev) : \E m \in Methods :
         /\ IsSome(BestOf(prev, i, m))
         /\ IsSome(BestOf(run, i, m))
         /\ Unwrap(BestOf(run, i, m)) < Unwrap(BestOf(prev, i, m))
    /\ \E i \in SegIndices(prev) : \E m \in Methods :
         /\ IsSome(ComparisonOf(prev, i, PersonalBestName, m))
         /\ Unwrap(ComparisonOf(run, i, PersonalBestName, m))
              > Unwrap(ComparisonOf(prev, i, PersonalBestName, m))

-----------------------------------------------------------------------------
(* import_pb_into_segment_history on Runs of up to MaxImportSegs segments
   with Personal Best splits and histories *)

MaxImportSegs == 3

\* The lowest index the imports go down to is -MaxImportDepth
MaxImportDepth == 5

\* The Personal Best splits of a segment: none, real time only, both
PbSplits ==
    {TimeDefault,
     [real_time |-> Some(2), game_time |-> None],
     [real_time |-> Some(5), game_time |-> Some(3)],
     [real_time |-> Some(1), game_time |-> Some(1)]}

\* The histories of a segment before the import
ImportHistories ==
    {<<>>,
     <<Entry(-1, [real_time |-> Some(1), game_time |-> None]), Entry(1, TimeDefault)>>}

ImportSegments ==
    {[SegmentNew("segment") EXCEPT !.comparisons[PersonalBestName] = pb,
                                   !.segment_history = h] :
        pb \in PbSplits, h \in ImportHistories}

ImportRuns ==
    {[RunNew EXCEPT !.segments = segs] : segs \in Lists(ImportSegments, MaxImportSegs)}

InitImport ==
    /\ SettingsIdle
    /\ call = NoCall
    /\ run \in ImportRuns
    /\ prev = <<>>
    /\ mid = <<>>
    /\ op = "new"

\* import_pb_into_segment_history returns
ImportPb ==
    /\ ~Panicked
    /\ ~MinSegmentHistoryIndexEnd(run).panic
    /\ min_segment_history_index(run) - Len(TimingMethodAll) >= -MaxImportDepth
    /\ run' = import_pb_into_segment_history(run)
    /\ prev' = run
    /\ mid' = <<>>
    /\ op' = "import_pb_into_segment_history"
    /\ UNCHANGED <<settingsVars, call>>

\* import_pb_into_segment_history panics in min_segment_history_index
ImportPbPanics ==
    /\ ~Panicked
    /\ MinSegmentHistoryIndexEnd(run).panic
    /\ run' = run
    /\ prev' = run
    /\ mid' = <<>>
    /\ op' = PanicOf("import_pb_into_segment_history")
    /\ UNCHANGED <<settingsVars, call>>

NextImport == ImportPb \/ ImportPbPanics

SpecImport == InitImport /\ [][NextImport]_vars

Imported == op = "import_pb_into_segment_history"

\* The indices in the histories of R
AllHistoryIndices(R) ==
    UNION {HistoryIndices(HistoryOf(R, i)) : i \in SegIndices(R)}

\* C22: import_pb_into_segment_history inserts the real-time import and the
\* game-time import at two distinct indices, both below every index of every
\* history before the call, and leaves every entry there was as it was.
ImportsAtFreshIndices ==
    Imported =>
      \E ir, ig \in -MaxImportDepth..0 :
        /\ ir # ig
        /\ \A x \in AllHistoryIndices(prev) : ir < x /\ ig < x
        /\ \A i \in SegIndices(run) :
             LET h == HistoryOf(prev, i)
                 d == HistoryOf(run, i)
             IN /\ HistoryIndices(d) = HistoryIndices(h) \cup {ir, ig}
                /\ Len(d) = Len(h) + 2
                /\ \A e \in Range(h) : e \in Range(d)
                /\ ~IsSome(Unwrap(HistoryGet(d, ir)).game_time)
                /\ ~IsSome(Unwrap(HistoryGet(d, ig)).real_time)
                /\ IsSome(prev.segments[i].comparisons[PersonalBestName].real_time)
                     => IsSome(Unwrap(HistoryGet(d, ir)).real_time)
                /\ IsSome(prev.segments[i].comparisons[PersonalBestName].game_time)
                     => IsSome(Unwrap(HistoryGet(d, ig)).game_time)

\* the import ran on a Run of two segments with Personal Best splits for
\* both methods and with histories that reach down to -1
ImportsAtFreshIndicesWitness ==
    /\ Imported
    /\ Len(prev.segments) >= 2
    /\ -1 \in AllHistoryIndices(prev)
    /\ \A i \in SegIndices(prev) : \A m \in Methods :
         IsSome(ComparisonOf(prev, i, PersonalBestName, m))

\* The Personal Best split of the nearest segment before i that has one for
\* method m, and zero when there is none
EarlierPbSplit(R, i, m) ==
    LET earlier == {j \in SegIndices(R) :
                      j < i /\ IsSome(ComparisonOf(R, j, PersonalBestName, m))}
    IN IF earlier = {}
       THEN 0
       ELSE Unwrap(ComparisonOf(R, SetMax(earlier), PersonalBestName, m))

\* The entries the import put into segment i that have a time for method m
ImportedEntries(i, m) ==
    {e \in Range(HistoryOf(run, i)) :
        e.index \notin AllHistoryIndices(prev) /\ IsSome(e.time[m])}

\* The sum of the times for method m of the entries imported into the
\* segments 1..i, each of which has exactly one
RECURSIVE ImportedSum(_, _)
ImportedSum(i, m) ==
    IF i = 0
    THEN 0
    ELSE Unwrap((CHOOSE e \in ImportedEntries(i, m) : TRUE).time[m])
           + ImportedSum(i - 1, m)

\* C23: for each timing method, the entry import_pb_into_segment_history
\* inserts into a segment with a Personal Best split has, for that method
\* only, the split minus the split of the nearest earlier segment that has
\* one (minus zero when none has); when every segment has a split, the
\* times inserted into the segments up to i add up to the split of i.
ImportedDurations ==
    Imported =>
      \A m \in Methods :
        /\ \A i \in SegIndices(prev) :
             IsSome(ComparisonOf(prev, i, PersonalBestName, m)) =>
               /\ Cardinality(ImportedEntries(i, m)) = 1
               /\ \A e \in ImportedEntries(i, m) :
                    e.time = WithTimingMethod(m,
                               Some(Unwrap(ComparisonOf(prev, i, PersonalBestName, m))
                                      - EarlierPbSplit(prev, i, m)))
        /\ (\A i \in SegIndices(prev) :
                IsSome(ComparisonOf(prev, i, PersonalBestName, m)))
             => \A i \in SegIndices(prev) :
                  ImportedSum(i, m) = Unwrap(ComparisonOf(prev, i, PersonalBestName, m))

\* the import ran on three segments of which the first and the third have
\* different Personal Best splits for real time and the second has none
ImportedDurationsWitness ==
    /\ Imported
    /\ Len(prev.segments) = 3
    /\ IsSome(ComparisonOf(prev, 1, PersonalBestName, RealTime))
    /\ ~IsSome(ComparisonOf(prev, 2, PersonalBestName, RealTime))
    /\ IsSome(ComparisonOf(prev, 3, PersonalBestName, RealTime))
    /\ ComparisonOf(prev, 1, PersonalBestName, RealTime)
         # ComparisonOf(prev, 3, PersonalBestName, RealTime)

-----------------------------------------------------------------------------
(* update_segment_history on Runs of up to MaxImportSegs segments with split
   times, histories and Attempts *)

\* The split times of a segment: none, real time only, both
SplitTimes ==
    {TimeDefault,
     [real_time |-> Some(1), game_time |-> None],
     [real_time |-> Some(4), game_time |-> Some(2)],
     [real_time |-> Some(6), game_time |-> Some(5)]}

\* The histories of a segment before the update
UpdateHistories ==
    {<<>>,
     <<Entry(0, [real_time |-> Some(1), game_time |-> None]), Entry(1, TimeDefault)>>}

UpdateSegments ==
    {[SegmentNew("segment") EXCEPT !.split_time = t, !.segment_history = h] :
        t \in SplitTimes, h \in UpdateHistories}

\* The Attempt Histories: the indices in the order the Attempts were appended
UpdateAttempts ==
    {<<>>,
     <<AttemptNew(1, TimeDefault)>>,
     <<AttemptNew(1, TimeDefault), AttemptNew(2, TimeDefault)>>,
     <<AttemptNew(2, TimeDefault), AttemptNew(1, TimeDefault)>>}

UpdateRuns ==
    {[RunNew EXCEPT !.segments = segs, !.attempt_history = a] :
        segs \in Lists(UpdateSegments, MaxImportSegs), a \in UpdateAttempts}

InitUpdate ==
    /\ SettingsIdle
    /\ call = NoCall
    /\ run \in UpdateRuns
    /\ prev = <<>>
    /\ mid = <<>>
    /\ op = "new"

\* update_segment_history(current_split_index) returns
UpdateHistory ==
    /\ ~Panicked
    /\ run.attempt_history # <<>>
    /\ \E current_split_index \in 0..(Len(run.segments) + 1) :
         /\ run' = update_segment_history(run, current_split_index)
         /\ call' = [fn |-> "update_segment_history",
                     current_split_index |-> current_split_index]
    /\ prev' = run
    /\ mid' = <<>>
    /\ op' = "update_segment_history"
    /\ UNCHANGED settingsVars

\* update_segment_history panics: there is no Attempt
UpdateHistoryPanics ==
    /\ ~Panicked
    /\ run.attempt_history = <<>>
    /\ run' = run
    /\ prev' = run
    /\ mid' = <<>>
    /\ op' = PanicOf("update_segment_history")
    /\ UNCHANGED <<settingsVars, call>>

NextUpdate == UpdateHistory \/ UpdateHistoryPanics

SpecUpdate == InitUpdate /\ [][NextUpdate]_vars

Updated == op = "update_segment_history" /\ call.fn = "update_segment_history"

\* The index of the Attempt appended last
LastAttemptIndex(R) == R.attempt_history[Len(R.attempt_history)].index

\* The split time for method m of the segment right before i, zero before
\* the first segment
PreviousSplit(R, i, m) == IF i = 1 THEN Some(0) ELSE R.segments[i - 1].split_time[m]

\* The split time for method m of the nearest segment before i that has
\* one, zero when none has
EarlierSplit(R, i, m) ==
    LET earlier == {j \in SegIndices(R) : j < i /\ IsSome(R.segments[j].split_time[m])}
    IN IF earlier = {} THEN Some(0) ELSE R.segments[SetMax(earlier)].split_time[m]

\* The split time of i minus from(i, m), for each method that has both
SegmentTimeFrom(R, i, from(_, _)) ==
    [m \in Methods |->
        IF IsSome(R.segments[i].split_time[m]) /\ IsSome(from(i, m))
        THEN Some(Unwrap(R.segments[i].split_time[m]) - Unwrap(from(i, m)))
        ELSE None]

\* The update took prev to run: the segments before current_split_index
\* have the time expected(i) at the index of the last Attempt and their
\* other entries as they were, the other segments are as they were
UpdatedWith(expected(_)) ==
    /\ Len(run.segments) = Len(prev.segments)
    /\ \A i \in SegIndices(prev) :
         IF i <= call.current_split_index
         THEN LET x == LastAttemptIndex(prev)
                  h == HistoryOf(prev, i)
                  d == HistoryOf(run, i)
              IN /\ HistoryGet(d, x) = Some(expected(i))
                 /\ HistoryIndices(d) = HistoryIndices(h) \cup {x}
                 /\ \A e \in Range(h) : e.index # x => e \in Range(d)
                 /\ [run.segments[i] EXCEPT !.segment_history = h] = prev.segments[i]
         ELSE run.segments[i] = prev.segments[i]

\* C24, as stated: update_segment_history(current_split_index) on a Run with
\* Attempts inserts into every segment before current_split_index, at the
\* index of the Attempt appended last, for each method the segment's split
\* time minus the split time of the segment before it (zero before the
\* first), absent when either is absent; the other segments are not
\* modified.
UpdateFromPreviousSegment ==
    Updated =>
      UpdatedWith(LAMBDA i :
        LET t == SegmentTimeFrom(prev, i, LAMBDA k, m : PreviousSplit(prev, k, m))
        IN [real_time |-> t[RealTime], game_time |-> t[GameTime]])

\* C24, amended: for each method the time inserted is the segment's split
\* time minus the split time of the nearest earlier segment that has one
\* (zero when none has), absent only when the segment's own split time is.
UpdateFromEarlierSplit ==
    Updated =>
      UpdatedWith(LAMBDA i :
        LET t == SegmentTimeFrom(prev, i, LAMBDA k, m : EarlierSplit(prev, k, m))
        IN [real_time |-> t[RealTime], game_time |-> t[GameTime]])

\* the update ran over three segments of which the second has no split time
\* and the others have, after the Attempts 2 and 1 were appended in this
\* order
UpdateFromEarlierSplitWitness ==
    /\ Updated
    /\ Len(prev.segments) = 3
    /\ call.current_split_index = 3
    /\ LastAttemptIndex(prev) = 1
    /\ Len(prev.attempt_history) = 2
    /\ IsSome(prev.segments[1].split_time.real_time)
    /\ prev.segments[2].split_time = TimeDefault
    /\ IsSome(prev.segments[3].split_time.real_time)
    /\ IsSome(Unwrap(HistoryGet(HistoryOf(run, 3), 1)).real_time)

-----------------------------------------------------------------------------
(* The Attempt History under add_attempt and add_attempt_with_index, from an
   empty one *)

MaxAttemptLen == 4

\* The indices a caller gives to add_attempt_with_index
GivenIndices == {-1, 0, 1, 2, I32Max}

InitAttempts ==
    /\ SettingsIdle
    /\ call = NoCall
    /\ run = RunNew
    /\ prev = <<>>
    /\ mid = <<>>
    /\ op = "new"

\* add_attempt returns: index + 1 did not overflow, or the build has no
\* overflow checks and it wrapped
AttemptAdd ==
    /\ Len(run.attempt_history) < MaxAttemptLen
    /\ Step("add_attempt", add_attempt(run, TimeDefault))

\* add_attempt panics: index + 1 overflows in a build with overflow checks
AttemptAddPanics ==
    /\ Len(run.attempt_history) < MaxAttemptLen
    /\ AddAttemptOverflows(run)
    /\ Step(PanicOf("add_attempt"), run)

\* add_attempt_with_index with an index that is not in the Attempt History
AttemptAddWithIndex ==
    /\ Len(run.attempt_history) < MaxAttemptLen
    /\ \E index \in GivenIndices :
         /\ \A k \in DOMAIN run.attempt_history : run.attempt_history[k].index # index
         /\ Step("add_attempt_with_index",
                 add_attempt_with_index(run, TimeDefault, index))

NextAttempts == AttemptAdd \/ AttemptAddPanics \/ AttemptAddWithIndex

SpecAttempts == InitAttempts /\ [][NextAttempts]_vars

\* C25: from an empty Attempt History, after add_attempt calls and
\* add_attempt_with_index calls with an index not yet in the history, no two
\* Attempts have the same index, and max_attempt_history_index is the
\* largest index in the history, none when it is empty.
AttemptIndicesUnique ==
    LET h == run.attempt_history
        m == max_attempt_history_index(run)
    IN /\ \A j, k \in DOMAIN h : h[j].index = h[k].index => j = k
       /\ h = <<>> => m = None
       /\ h # <<>> =>
            /\ IsSome(m)
            /\ \E k \in DOMAIN h : h[k].index = Unwrap(m)
            /\ \A k \in DOMAIN h : h[k].index <= Unwrap(m)

=============================================================================
